---- MODULE Spec2Model ----
(***************************************************************************)
(* json-api-tester (lib/index.js): the singleTest dispatcher and evaluator *)
(* and the testArray sequence runner, as a state machine.                  *)
(*                                                                         *)
(* JavaScript values are tagged records.  A JavaScript string is the       *)
(* sequence of its lexical tokens, so that concatenation is \o and         *)
(* split(';') is a search for the ";" token.                               *)
(***************************************************************************)
EXTENDS Integers, Sequences, FiniteSets, TLC

VARIABLES
  arr,             \* the array of test objects handed to testArray
  serverName,      \* the serverName handed to testArray
  defaultTimeout,  \* the property jsonApiTester.defaultTimeout of the module object
  phase,           \* "idle" before testArray is called, "running" after
  now,             \* the clock, in milliseconds
  st,              \* per test: "idle", "waiting", "inflight", "done", "threw"
  timer,           \* per test: the wait timer or the request's deadline
  requestOpt,      \* per test: the options object handed to request()
  form,            \* per test: the parts appended to req.form()
  presented,       \* per test: the cookies of the jar the request carried
  startAt,         \* per test: the time singleTest was entered
  doneAt,          \* per test: the time its callback was invoked
  response,        \* per test: what the request produced (error, response, body)
  outcome,         \* per test: the argument its callback was invoked with
  checks,          \* per test: the comparisons the request callback evaluated
  cbCount,         \* per test: how often its callback was invoked
  jars,            \* the cookie jars made by request.jar(), by reference
  cookieJar,       \* testArray's variable cookieJar: a reference into jars
  runJar,          \* per testArray call: the jar it handed to singleTest
  completed,       \* async.each: the number of iterators that reported success
  callbackLive,    \* async.each: FALSE once callback was replaced by a no-op
  finalCalls,      \* the arguments of each invocation of testArray's callback
  crashed,         \* an exception escaped to the event loop
  program,         \* the commander object required by the module
  argv,            \* the args of the last processCmdLineArgs call
  settings,        \* what that call returned or threw
  path,            \* the path handed to test or testDirectory
  pc               \* which of them was called, and where the call is

cmdVars == <<program, argv, settings>>
pathVars == <<path, pc>>

vars == <<arr, serverName, defaultTimeout, phase, now, st, timer, requestOpt,
          form, presented, startAt, doneAt, response, outcome, checks, cbCount,
          jars, cookieJar, runJar, completed, callbackLive, finalCalls, crashed,
          cmdVars, pathVars>>

(***************************************************************************)
(* Bounds of the model.                                                    *)
(***************************************************************************)
MaxLen == 2
MaxWait == 2
MaxRuns == 2
MaxArgs == 3
MaxCalls == 2
MaxEntries == 2

(***************************************************************************)
(* JavaScript values.                                                      *)
(***************************************************************************)
Undefined == [t |-> "undefined"]
Null == [t |-> "null"]
Num(n) == [t |-> "number", n |-> n]
Str(s) == [t |-> "string", s |-> s]
Obj(o) == [t |-> "object", o |-> o]
Err(name) == [t |-> "error", name |-> name]
DontCare == [t |-> "matcher", m |-> "dontCare"]

\* JavaScript truthiness, as used by `if (x)` and `x || y`.
Truthy(v) ==
  CASE v.t = "undefined" -> FALSE
    [] v.t = "null" -> FALSE
    [] v.t = "number" -> v.n # 0
    [] v.t = "string" -> v.s # <<>>
    [] OTHER -> TRUE

\* a || b
Or(a, b) == IF Truthy(a) THEN a ELSE b

\* String(v), the coercion JSON.parse applies to its argument.
StringOf(v) ==
  CASE v.t = "string" -> v.s
    [] v.t = "object" -> <<"[object Object]">>
    [] v.t = "number" -> <<v.n>>
    [] OTHER -> <<v.t>>

HelloText == <<"{\"message\":\"hello world\"}">>
GoodbyeText == <<"{\"message\":\"goodbye\"}">>
HtmlText == <<"<html>">>
HelloObj == Obj([message |-> "hello world"])
GoodbyeObj == Obj([message |-> "goodbye"])

\* JSON.parse(text): [ok, val]; ok = FALSE stands for the SyntaxError it throws.
JSONparse(text) ==
  CASE text = HelloText -> [ok |-> TRUE, val |-> HelloObj]
    [] text = GoodbyeText -> [ok |-> TRUE, val |-> GoodbyeObj]
    [] OTHER -> [ok |-> FALSE, val |-> Undefined]

\* An isEqual that takes a matcher for a value.
isEqualLiteral(expected, actual) == expected = actual

\* ja.isEqual(expected, actual): deep equality, a matcher in place of a value
\* deciding by itself.
isEqual(expected, actual) ==
  IF expected.t = "matcher" THEN expected.m = "dontCare" ELSE expected = actual

JsonType == <<"application/json">>
JsonCharsetHeader == <<"application/json", ";", " charset=utf-8">>
JsonTwoParamsHeader == <<"application/json", ";", " charset=utf-8", ";", " v=1">>
HtmlType == <<"text/html">>

\* A split(';')[0] that leaves the string whole.
SplitNothing(s) == s

\* s.split(';')[0]: the tokens before the first ";".
RECURSIVE SplitFirst(_)
SplitFirst(s) ==
  IF s = <<>> \/ Head(s) = ";" THEN <<>> ELSE <<Head(s)>> \o SplitFirst(Tail(s))

\* s.indexOf(tok): the position of the first tok, 0 at the start, -1 if none.
IndexOf(s, tok) ==
  IF \E k \in DOMAIN s : s[k] = tok
  THEN (CHOOSE k \in DOMAIN s : s[k] = tok /\ \A j \in 1..(k - 1) : s[j] # tok) - 1
  ELSE -1

\* obj[f]
Field(obj, f) ==
  IF obj.t = "object" /\ f \in DOMAIN obj.o THEN obj.o[f] ELSE Undefined

(***************************************************************************)
(* Test objects (TestObj) and what a server may answer.                    *)
(***************************************************************************)
WaitValues == {Undefined} \cup {Num(n) : n \in 0..MaxWait}
ArgsValues == {Undefined, Obj([name |-> "bob"])}
StatusValues == {Undefined, Num(404), DontCare}
ContentTypeValues == {Undefined, Str(JsonType), Str(HtmlType), DontCare}
TimeoutValues == {Undefined, Num(50)}
ReturnsValues == {Undefined, HelloObj, DontCare}

HelloUrl == <<"/hello">>
Urls == {HelloUrl, <<"hello/">>}

TestObjs ==
  [wait : WaitValues, args : ArgsValues, status : StatusValues,
   contentType : ContentTypeValues, timeout : TimeoutValues,
   returns : ReturnsValues, url : {HelloUrl}, form : {Undefined},
   files : {Undefined}]

TestObj(wait, args, status, returns) ==
  [wait |-> wait, args |-> args, status |-> status, contentType |-> Undefined,
   timeout |-> Undefined, returns |-> returns, url |-> HelloUrl,
   form |-> Undefined, files |-> Undefined]

\* DOCUMENTATION.md: "do nothing for half a second", "basic get" and "not
\* found" (the wait shortened to one millisecond).
WaitTest == TestObj(Num(1), Undefined, Undefined, Undefined)
BasicGet == TestObj(Undefined, Undefined, Undefined, HelloObj)
NotFound == TestObj(Undefined, Undefined, Num(404), DontCare)

SeqTestObjs == {WaitTest, BasicGet, NotFound}

\* serverName: with either protocol, with none, and with one past the start.
LocalServer == <<"http://", "localhost:3000">>
ServerNames ==
  {LocalServer, <<"https://", "api.5app.com">>, <<"localhost:3000">>,
   <<"proxy.5app.com/", "http://", "localhost:3000">>}

\* A basic get of each url.
UrlTestObjs == {[BasicGet EXCEPT !.url = u] : u \in Urls} \cup {WaitTest}

\* The paths fs.readFileSync finds a file at.
ReadableFiles == {<<"README.md">>, <<"test/", "data.bin">>}

\* Tests that post a file: the `form` singleTest reads, with a file that is
\* there, with one that is not, and next to args; and DOCUMENTATION.md's
\* "post two files".
UploadTest(args, frm, files) ==
  [TestObj(Undefined, args, Undefined, DontCare) EXCEPT
     !.url = <<"/files">>, !.form = frm, !.files = files]

UploadData ==
  UploadTest(Undefined,
             Obj([file |-> Str(<<"test/", "data.bin">>), title |-> Str(<<"data">>)]),
             Undefined)
UploadMissing ==
  UploadTest(Undefined, Obj([file |-> Str(<<"test/", "missing.bin">>)]), Undefined)
UploadWithArgs ==
  UploadTest(Obj([name |-> "bob"]), Obj([file |-> Str(<<"README.md">>)]), Undefined)
PostTwoFiles ==
  UploadTest(Obj([password |-> "password for cert"]), Undefined,
             Obj([key |-> Str(<<"README.md">>), cert |-> Str(<<"README.md">>)]))

UploadTestObjs == {UploadData, UploadMissing, UploadWithArgs, PostTwoFiles, WaitTest}

SidCookie == <<"sid=1">>

Headers(contentType, setCookie) ==
  [h \in (IF contentType = Undefined THEN {} ELSE {"content-type"})
         \cup (IF setCookie = Undefined THEN {} ELSE {"set-cookie"}) |->
     IF h = "content-type" THEN contentType ELSE setCookie]

Responses ==
  {[statusCode |-> s, headers |-> Headers(c, Undefined), body |-> b] :
     s \in {200, 404},
     c \in {Undefined, Str(JsonType), Str(JsonCharsetHeader),
            Str(JsonTwoParamsHeader), Str(HtmlType)},
     b \in {HelloText, GoodbyeText, HtmlText}}

SeqResponses ==
  {[statusCode |-> 200, headers |-> Headers(Str(JsonCharsetHeader), Str(SidCookie)),
    body |-> HelloText],
   [statusCode |-> 200, headers |-> Headers(Str(JsonCharsetHeader), Undefined),
    body |-> HelloText],
   [statusCode |-> 404, headers |-> Headers(Str(JsonCharsetHeader), Undefined),
    body |-> GoodbyeText],
   [statusCode |-> 200, headers |-> Headers(Undefined, Undefined),
    body |-> HtmlText]}

\* response.headers[name]
HeaderOf(res, name) ==
  IF name \in DOMAIN res.headers THEN res.headers[name] ELSE Undefined

(***************************************************************************)
(* singleTest                                                              *)
(***************************************************************************)
\* A singleTest without the wait branch.
WaitNeverRequested(test) == FALSE

\* if (test.wait) { setTimeout(callback, test.wait); return; }
WaitRequested(test) == Truthy(test.wait)

\* The number 1000 of `timeout: test.timeout || 1000`.
CodeDefaultTimeout == 1000
\* DOCUMENTATION.md: "It defaults to 2 seconds".
DocumentedDefaultTimeout == 2000

\* "add a protocal at the start if one is missing"
WithProtocol(server) ==
  IF IndexOf(server, "http://") # 0 /\ IndexOf(server, "https://") # 0
  THEN <<"http://">> \o server
  ELSE server

\* url: serverName + '/' + test.url
RequestUrl(test, server) == WithProtocol(server) \o <<"/">> \o test.url

\* The options without `timeout`.
RequestOptionsNoTimeout(test, jar, server) ==
  [url |-> RequestUrl(test, server), json |-> test.args, jar |-> jar,
   timeout |-> Undefined]

\* var requestOpt = {url, method, json: test.args, jar: cookieJar, timeout}
RequestOptions(test, jar, server) ==
  [url |-> RequestUrl(test, server), json |-> test.args, jar |-> jar,
   timeout |-> Or(test.timeout, Num(CodeDefaultTimeout))]

NoRequest == [url |-> <<>>, json |-> Undefined, jar |-> 0, timeout |-> Undefined]

\* if (test.form && test.form.file)
ReadsFile(test) == Truthy(test.form) /\ Truthy(Field(test.form, "file"))

\* fs.readFileSync(test.form.file) throws: there is no such file.
ReadThrows(test) ==
  ReadsFile(test) /\ Field(test.form, "file").s \notin ReadableFiles

\* if (test.form) { var form = req.form(); for (var f in test.form) ... }
NoForm == [t |-> "undefined"]
FormParts(test) ==
  IF ~Truthy(test.form) THEN NoForm
  ELSE [t |-> "form",
        parts |->
          {IF f = "file"
           THEN [name |-> f, value |-> test.form.o[f], filename |-> <<"uploaded">>,
                 contentType |-> <<"application/octet-stream">>]
           ELSE [name |-> f, value |-> test.form.o[f], filename |-> <<>>,
                 contentType |-> <<>>] : f \in DOMAIN test.form.o}]
NoTimer == [armed |-> FALSE, at |-> 0]

\* request(): the deadline it arms for a request with the option `timeout`.
RequestTimer(opt, time) ==
  IF Truthy(opt.timeout) THEN [armed |-> TRUE, at |-> time + opt.timeout.n]
  ELSE NoTimer

\* The synchronous part of singleTest(test, cookieJar, serverName, ...,
\* callback) entered at `time` with the jars holding `heap`: what it leaves
\* pending, or "threw" when readFileSync threw out of it.
singleTest(test, jar, server, heap, time) ==
  IF WaitRequested(test)
  THEN [st |-> "waiting", timer |-> [armed |-> TRUE, at |-> time + test.wait.n],
        requestOpt |-> NoRequest, form |-> NoForm, presented |-> {}]
  ELSE IF ReadThrows(test)
  THEN [st |-> "threw", timer |-> NoTimer, requestOpt |-> NoRequest,
        form |-> NoForm, presented |-> {}]
  ELSE LET opt == RequestOptions(test, jar, server)
       IN [st |-> "inflight", timer |-> RequestTimer(opt, time),
           requestOpt |-> opt, form |-> FormParts(test), presented |-> heap[jar]]

\* request with the option `json`: the body handed to the callback is the
\* parsed response body when it parses, the text otherwise.
RequestBody(opt, text) ==
  IF Truthy(opt.json) /\ JSONparse(text).ok THEN JSONparse(text).val
  ELSE Str(text)

Called(arg, done) == [threw |-> FALSE, arg |-> arg, checks |-> done]
Threw(done) == [threw |-> TRUE, arg |-> Undefined, checks |-> done]

\* The body compared as it arrived, without JSON.parse.
CheckBodyNoParse(test, type, body) ==
  LET before == {"status", "contentType"}
  IN IF type # Str(JsonType) THEN Called(Null, before)
     ELSE IF ~isEqual(test.returns, body)
     THEN Called(Str(<<"Wrong response body">>), before \cup {"body"})
     ELSE Called(Null, before \cup {"body"})

\* The body parsed and compared whatever the content type.
CheckBodyAnyType(test, type, body) ==
  LET parsed == JSONparse(StringOf(body))
      before == {"status", "contentType"}
  IN IF ~parsed.ok THEN Called(Err("SyntaxError"), before \cup {"parse"})
     ELSE IF ~isEqual(test.returns, parsed.val)
     THEN Called(Str(<<"Wrong response body">>), before \cup {"parse", "body"})
     ELSE Called(Null, before \cup {"parse", "body"})

\* "check the JSON matches": JSON.parse(body) in a try, then test.returns.
CheckBody(test, type, body) ==
  LET parsed == JSONparse(StringOf(body))
      before == {"status", "contentType"}
  IN IF type # Str(JsonType) THEN Called(Null, before)
     ELSE IF ~parsed.ok THEN Called(Err("SyntaxError"), before \cup {"parse"})
     ELSE IF ~isEqual(test.returns, parsed.val)
     THEN Called(Str(<<"Wrong response body">>), before \cup {"parse", "body"})
     ELSE Called(Null, before \cup {"parse", "body"})

\* "check the content type matches", then the body.
CheckContentType(test, res, body) ==
  LET expectedContentType == Or(test.contentType, Str(JsonType))
      header == HeaderOf(res, "content-type")
      type == Str(SplitFirst(header.s))
  IN IF header = Undefined
     THEN Threw({"status"})  \* TypeError: undefined has no property split
     ELSE IF ~isEqual(expectedContentType, type)
     THEN Called(Str(<<"Wrong mime type: ">> \o type.s), {"status", "contentType"})
     ELSE CheckBody(test, type, body)

\* A status check moved behind the other two checks.
CheckStatusLast(test, res, body) ==
  LET expectedStatusCode == Or(test.status, Num(200))
      r == CheckContentType(test, res, body)
  IN IF r.threw \/ Truthy(r.arg) THEN r
     ELSE IF ~isEqual(expectedStatusCode, Num(res.statusCode))
     THEN Called(Str(<<"Wrong status code: ", res.statusCode>>), r.checks)
     ELSE r

\* "check the status code matches what is expected", then the other checks.
CheckStatus(test, res, body) ==
  LET expectedStatusCode == Or(test.status, Num(200))
  IN IF ~isEqual(expectedStatusCode, Num(res.statusCode))
     THEN Called(Str(<<"Wrong status code: ", res.statusCode>>), {"status"})
     ELSE CheckContentType(test, res, body)

\* A transport error reported as a message, the checks still run.
RequestCallbackErrAsMessage(test, err, res, body) ==
  IF Truthy(err) THEN Called(Str(<<"Error, Failed test">>), {})
  ELSE CheckStatus(test, res, body)

\* The callback singleTest hands to request: function(err, response, body).
\* The result is the argument it passes to the test's callback, or that it
\* threw, and the comparisons it evaluated on the way.
RequestCallback(test, err, res, body) ==
  IF Truthy(err) THEN Called(err, {}) ELSE CheckStatus(test, res, body)

(***************************************************************************)
(* testArray: async.map(arr, iterator, callback), which is async.each with *)
(* the results collected.                                                  *)
(***************************************************************************)
\* The tests whose iterator async.map has started when testArray returns:
\* all of them, or those up to the first whose singleTest threw.
StartedByMap(a) ==
  {i \in 1..Len(a) :
     \A j \in 1..(i - 1) : singleTest(a[j], 1, <<>>, <<{}>>, 0).st # "threw"}

\* An each that starts on an empty array as on any other.
EachStartNoEmptyCheck(n) == <<>>

\* async.each: `if (!arr.length) { return callback(); }`, the calls of the
\* final callback made before any iterator ran.
EachStart(n) == IF n = 0 THEN <<Undefined>> ELSE <<>>

\* A request.jar() that hands out the one jar there is.
requestJarShared(heap) ==
  IF heap = <<>> THEN [jars |-> <<{}>>, ref |-> 1] ELSE [jars |-> heap, ref |-> 1]

\* request.jar(): a new, empty jar.
requestJar(heap) == [jars |-> Append(heap, {}), ref |-> Len(heap) + 1]

\* A done(err) that counts a failed iterator as completed.
EachDoneCountsErrors(err, n, count, live, calls) ==
  [completed |-> count + 1, callbackLive |-> live,
   finalCalls |-> IF count + 1 >= n /\ live THEN Append(calls, Undefined)
                  ELSE calls]

\* async.each's done(err), the callback of one iterator: the new values of
\* completed, callbackLive and finalCalls.
EachDone(err, n, count, live, calls) ==
  IF Truthy(err)
  THEN [completed |-> count, callbackLive |-> FALSE,
        finalCalls |-> IF live THEN Append(calls, err) ELSE calls]
  ELSE [completed |-> count + 1, callbackLive |-> live,
        finalCalls |-> IF count + 1 >= n /\ live THEN Append(calls, Undefined)
                       ELSE calls]

NotCalled == [t |-> "notcalled"]
NoResponse == [kind |-> "none"]

(***************************************************************************)
(* processCmdLineArgs: commander's parse of process.argv.                  *)
(***************************************************************************)
\* What may follow 'node', 'index.js' in process.argv.
ArgTokens == {"-v", "-vvv", "beta.5app.com", "test"}
Argvs == UNION {[1..n -> ArgTokens] : n \in 0..MaxArgs}

\* commander's normalize: a group of short flags is split into its flags.
RECURSIVE Normalize(_)
Normalize(a) ==
  IF a = <<>> THEN <<>>
  ELSE (IF Head(a) = "-vvv" THEN <<"-v", "-v", "-v">> ELSE <<Head(a)>>)
         \o Normalize(Tail(a))

IsVerboseFlag(tok) == tok = "-v"

\* commander's parseOptions: program.args, the arguments that are no option.
ProgramArgs(a) == SelectSeq(Normalize(a), LAMBDA tok : ~IsVerboseFlag(tok))

\* The number of times parse emits 'verbose'.
VerboseEvents(a) == Len(SelectSeq(Normalize(a), IsVerboseFlag))

\* program.args[k]
ArgAt(args, k) == IF k \in DOMAIN args THEN Str(<<args[k]>>) ELSE Undefined

\* The commander object as required: no option registered, verbose unset.
FreshProgram == [verbose |-> Undefined, options |-> 0]

\* program.version(..).usage(..).option('-v, --verbose', .., increaseVerbosity,
\* 0).parse(args) on the module's program object: option() adds one more
\* listener of 'verbose', and each listener sets program.verbose to
\* increaseVerbosity(val, program.verbose, or 0 while it is undefined).
Parse(prog, a) ==
  LET listeners == prog.options + 1
      total == IF prog.verbose = Undefined THEN 0 ELSE prog.verbose.n
  IN [verbose |-> IF VerboseEvents(a) = 0 THEN prog.verbose
                  ELSE Num(total + VerboseEvents(a) * listeners),
      options |-> listeners]

NoSettings == [t |-> "none"]
ThrewError(msg) == [t |-> "threw", message |-> msg]

\* The statements of processCmdLineArgs after parse: what it returns or throws.
Settings(prog, a) ==
  LET server == ArgAt(ProgramArgs(a), 1)
      dir == ArgAt(ProgramArgs(a), 2)
  IN IF ~Truthy(server) THEN ThrewError(<<"expected a server name">>)
     ELSE IF ~Truthy(dir)
     THEN ThrewError(<<"expected the path of the folder/file containing the tests">>)
     ELSE [t |-> "program", server |-> server, path |-> dir,
           verbose |-> Or(prog.verbose, Num(0))]

(***************************************************************************)
(* test, testDirectory, testFile: a path and what the file system holds    *)
(* there.                                                                  *)
(***************************************************************************)
NoPath == [arg |-> Undefined, kind |-> "none", entries |-> <<>>]
NotCalledYet == [fn |-> "none", at |-> "idle"]

\* The names fs.readdir may list, as base and extension.
EntryNames == {<<"a", ".js">>, <<"b", ".js">>, <<"notes", ".txt">>}
Listings == UNION {[1..n -> EntryNames] : n \in 0..MaxEntries}

\* What is at a path: a file of tests, a directory with its listing,
\* something else (a device, a socket), or nothing.
Nodes ==
  {[kind |-> k, entries |-> <<>>] : k \in {"file", "other", "missing"}}
    \cup {[kind |-> "directory", entries |-> l] : l \in Listings}

\* The path as the string Settings documents, or as the file descriptor
\* fs.fstat asks for.
PathArgs == {Str(<<"tests">>), Num(3)}
PathInputs ==
  {[arg |-> a, kind |-> n.kind, entries |-> n.entries] : a \in PathArgs, n \in Nodes}

\* fileName.endsWith('.js')
EndsWithJs(name) == name[Len(name)] = ".js"

\* _.filter(files, ...): "only deal with `js` files"
JsFiles(files) == SelectSeq(files, EndsWithJs)

\* fs.fstat(fd, callback) and fs.readdir(path, callback) throw at once on
\* an argument of the wrong type.
FstatThrows(q) == q.arg.t # "number"
ReaddirThrows(q) == q.arg.t # "string"

\* require(path): the array of tests a file of tests exports; throws when
\* there is no such module or the path is no string.
RequireThrows(q) == q.arg.t # "string" \/ q.kind # "file"

\* async.series(tasks, callback) handed (files, iterator, callback): it
\* calls tasks[0], a string, as a function, or on no tasks calls its second
\* argument, the iterator, with (undefined, []).
SeriesThrows(tasks) == tasks # <<>>

\* path + '/' + file for the file the iterator is then given: undefined.
UndefinedFile(q) ==
  [arg |-> Str(q.arg.s \o <<"/", "undefined">>), kind |-> "missing",
   entries |-> <<>>]

(***************************************************************************)
(* The state machine.                                                      *)
(***************************************************************************)
Tests == DOMAIN arr
Pending == {i \in Tests : st[i] \in {"waiting", "inflight"}}

InitCall(a, server) ==
  /\ arr = a
  /\ serverName = server
  /\ defaultTimeout = Undefined
  /\ phase = "idle"
  /\ now = 0
  /\ st = [i \in DOMAIN a |-> "idle"]
  /\ timer = [i \in DOMAIN a |-> NoTimer]
  /\ requestOpt = [i \in DOMAIN a |-> NoRequest]
  /\ form = [i \in DOMAIN a |-> NoForm]
  /\ presented = [i \in DOMAIN a |-> {}]
  /\ startAt = [i \in DOMAIN a |-> 0]
  /\ doneAt = [i \in DOMAIN a |-> 0]
  /\ response = [i \in DOMAIN a |-> NoResponse]
  /\ outcome = [i \in DOMAIN a |-> NotCalled]
  /\ checks = [i \in DOMAIN a |-> {}]
  /\ cbCount = [i \in DOMAIN a |-> 0]
  /\ jars = <<>>
  /\ cookieJar = 0
  /\ runJar = <<>>
  /\ completed = 0
  /\ callbackLive = TRUE
  /\ finalCalls = <<>>
  /\ crashed = FALSE
  /\ program = FreshProgram
  /\ argv = <<>>
  /\ settings = NoSettings
  /\ path = NoPath
  /\ pc = NotCalledYet

\* The tests run against the server of test/regression/docs.js.
InitWith(a) == InitCall(a, LocalServer)

\* Sequences of the documented tests, up to MaxLen of them.
Init == \E a \in UNION {[1..n -> SeqTestObjs] : n \in 0..MaxLen} : InitWith(a)

\* One test object of any shape.
InitSingle == \E a \in [1..1 -> TestObjs] : InitWith(a)

\* Sequences of tests that post files.
InitUpload ==
  \E a \in UNION {[1..n -> UploadTestObjs] : n \in 1..MaxLen} : InitWith(a)

\* Sequences of basic gets and waits, for testArray called more than once.
RunTestObjs == {BasicGet, WaitTest}
InitRuns == \E a \in UNION {[1..n -> RunTestObjs] : n \in 0..MaxLen} : InitWith(a)

\* The answers to a basic get, with a cookie and without.
RunResponses ==
  {[statusCode |-> 200, headers |-> Headers(Str(JsonCharsetHeader), c),
    body |-> HelloText] : c \in {Str(SidCookie), Undefined}}

\* One basic get or wait, against each server name.
InitUrl == \E a \in [1..1 -> UrlTestObjs] : \E s \in ServerNames : InitCall(a, s)

\* jsonApiTester.defaultTimeout = v, before the tests are run.
AssignableTimeouts == {500}
AssignDefaultTimeout(v) ==
  /\ phase = "idle"
  /\ defaultTimeout = Undefined
  /\ defaultTimeout' = Num(v)
  /\ UNCHANGED <<cmdVars, pathVars, arr, serverName, phase, now, st, timer, requestOpt, form,
                 presented, startAt, doneAt, response, outcome, checks, cbCount,
                 jars, cookieJar, runJar, completed, callbackLive, finalCalls,
                 crashed>>

\* The body of testArray: a fresh jar, then async.map starts singleTest on
\* the tests; on an empty array async.each calls callback() at once.  An
\* exception of singleTest leaves testArray for its caller, who catches it
\* or not.
StartRun ==
  /\ LET jar == requestJar(jars)
         started == StartedByMap(arr)
         s(i) == singleTest(arr[i], jar.ref, serverName, jar.jars, now)
     IN /\ jars' = jar.jars
        /\ cookieJar' = jar.ref
        /\ runJar' = Append(runJar, jar.ref)
        /\ st' = [i \in Tests |-> IF i \in started THEN s(i).st ELSE "idle"]
        /\ timer' = [i \in Tests |-> IF i \in started THEN s(i).timer ELSE NoTimer]
        /\ requestOpt' =
             [i \in Tests |-> IF i \in started THEN s(i).requestOpt ELSE NoRequest]
        /\ form' = [i \in Tests |-> IF i \in started THEN s(i).form ELSE NoForm]
        /\ presented' = [i \in Tests |-> IF i \in started THEN s(i).presented ELSE {}]
        /\ startAt' = [i \in Tests |-> now]
        /\ IF \E i \in started : s(i).st = "threw"
           THEN crashed' \in BOOLEAN
           ELSE crashed' = FALSE
  /\ finalCalls' = EachStart(Len(arr))

\* testArray(arr, serverName, verbosity, callback)
testArray ==
  /\ phase = "idle"
  /\ phase' = "running"
  /\ StartRun
  /\ UNCHANGED <<cmdVars, pathVars, arr, serverName, defaultTimeout, now, doneAt, response, outcome,
                 checks, cbCount, completed, callbackLive>>

\* testArray called once more on the same tests, after the tests of the call
\* before have ended.
testArrayAgain ==
  /\ phase = "running"
  /\ ~crashed
  /\ Pending = {}
  /\ Len(runJar) < MaxRuns
  /\ StartRun
  /\ doneAt' = [i \in Tests |-> 0]
  /\ response' = [i \in Tests |-> NoResponse]
  /\ outcome' = [i \in Tests |-> NotCalled]
  /\ checks' = [i \in Tests |-> {}]
  /\ cbCount' = [i \in Tests |-> 0]
  /\ completed' = 0
  /\ callbackLive' = TRUE
  /\ UNCHANGED <<cmdVars, pathVars, arr, serverName, defaultTimeout, phase, now>>

\* The test's callback is invoked with `arg`: async.each's done(arg).
Deliver(i, arg) ==
  /\ st' = [st EXCEPT ![i] = "done"]
  /\ timer' = [timer EXCEPT ![i] = NoTimer]
  /\ outcome' = [outcome EXCEPT ![i] = arg]
  /\ cbCount' = [cbCount EXCEPT ![i] = @ + 1]
  /\ doneAt' = [doneAt EXCEPT ![i] = now]
  /\ LET d == EachDone(arg, Len(arr), completed, callbackLive, finalCalls)
     IN /\ completed' = d.completed
        /\ callbackLive' = d.callbackLive
        /\ finalCalls' = d.finalCalls

\* The wait timer of test i fires: setTimeout calls callback().
WaitElapsed(i) ==
  /\ ~crashed
  /\ st[i] = "waiting"
  /\ timer[i].armed /\ timer[i].at = now
  /\ Deliver(i, Undefined)
  /\ UNCHANGED <<cmdVars, pathVars, arr, serverName, defaultTimeout, phase, now, requestOpt, form,
                 presented, startAt, response, checks, jars, cookieJar, runJar,
                 crashed>>

\* The request of test i ends with the transport error `e`.
RequestError(i, e) ==
  /\ LET cb == RequestCallback(arr[i], Err(e), Undefined, Undefined)
     IN /\ Deliver(i, cb.arg)
        /\ checks' = [checks EXCEPT ![i] = cb.checks]
  /\ response' = [response EXCEPT ![i] = [kind |-> "error", err |-> Err(e)]]
  /\ UNCHANGED <<cmdVars, pathVars, arr, serverName, defaultTimeout, phase, now, requestOpt, form,
                 presented, startAt, jars, cookieJar, runJar, crashed>>

\* The deadline of request i passes with no response.
RequestTimeout(i) ==
  /\ ~crashed
  /\ st[i] = "inflight"
  /\ timer[i].armed /\ timer[i].at = now
  /\ RequestError(i, "ETIMEDOUT")

\* The connection of request i fails.
ConnectionFailure(i) ==
  /\ ~crashed
  /\ st[i] = "inflight"
  /\ RequestError(i, "ECONNREFUSED")

\* The server's response r to request i arrives: request stores its cookies
\* in the jar and calls the callback.
ServerRespond(i, r) ==
  /\ ~crashed
  /\ st[i] = "inflight"
  /\ LET body == RequestBody(requestOpt[i], r.body)
         cb == RequestCallback(arr[i], Null, r, body)
     IN /\ response' = [response EXCEPT ![i] =
                          [kind |-> "response", res |-> r, body |-> body]]
        /\ checks' = [checks EXCEPT ![i] = cb.checks]
        /\ IF cb.threw
           THEN /\ crashed' = TRUE
                /\ st' = [st EXCEPT ![i] = "threw"]
                /\ timer' = [timer EXCEPT ![i] = NoTimer]
                /\ UNCHANGED <<outcome, cbCount, doneAt, completed,
                               callbackLive, finalCalls>>
           ELSE /\ Deliver(i, cb.arg)
                /\ UNCHANGED crashed
  /\ jars' = [jars EXCEPT ![requestOpt[i].jar] = @ \cup
       (IF "set-cookie" \in DOMAIN r.headers THEN {r.headers["set-cookie"].s} ELSE {})]
  /\ UNCHANGED <<cmdVars, pathVars, arr, serverName, defaultTimeout, phase, now, requestOpt, form,
                 presented, startAt, cookieJar, runJar>>

\* Time passes to t; no armed timer is passed over.
Instants ==
  (1..MaxWait) \cup {50, CodeDefaultTimeout, DocumentedDefaultTimeout}
    \cup AssignableTimeouts \cup {timer[i].at : i \in {j \in Pending : timer[j].armed}}

Tick(t) ==
  /\ ~crashed
  /\ Pending # {}
  /\ t > now
  /\ \A i \in Pending : timer[i].armed => timer[i].at >= t
  /\ now' = t
  /\ UNCHANGED <<cmdVars, pathVars, arr, serverName, defaultTimeout, phase, st, timer, requestOpt,
                 form, presented, startAt, doneAt, response, outcome, checks,
                 cbCount, jars, cookieJar, runJar, completed, callbackLive,
                 finalCalls, crashed>>

testVars ==
  <<arr, serverName, defaultTimeout, phase, now, st, timer, requestOpt, form,
    presented, startAt, doneAt, response, outcome, checks, cbCount, jars,
    cookieJar, runJar, completed, callbackLive, finalCalls, crashed>>

\* processCmdLineArgs(args), up to MaxCalls times in one process.
processCmdLineArgs(a) ==
  /\ program.options < MaxCalls
  /\ LET parsed == Parse(program, a)
     IN /\ program' = [parsed EXCEPT !.verbose = Or(parsed.verbose, Num(0))]
        /\ settings' = Settings(parsed, a)
  /\ argv' = a
  /\ UNCHANGED <<testVars, pathVars>>

Next ==
  \/ testArray
  \/ \E i \in Tests : WaitElapsed(i)
  \/ \E i \in Tests : RequestTimeout(i)
  \/ \E i \in Tests : ConnectionFailure(i)
  \/ \E i \in Tests : \E r \in SeqResponses : ServerRespond(i, r)
  \/ \E t \in Instants : Tick(t)

Spec == Init /\ [][Next]_vars

NextSingle ==
  \/ \E v \in AssignableTimeouts : AssignDefaultTimeout(v)
  \/ testArray
  \/ \E i \in Tests : WaitElapsed(i)
  \/ \E i \in Tests : RequestTimeout(i)
  \/ \E i \in Tests : ConnectionFailure(i)
  \/ \E i \in Tests : \E r \in Responses : ServerRespond(i, r)
  \/ \E t \in Instants : Tick(t)

SpecSingle == InitSingle /\ [][NextSingle]_vars

\* Tests that post files.
SpecUpload == InitUpload /\ [][Next]_vars

\* The request target, by server name and url.
SpecUrl == InitUrl /\ [][Next]_vars

\* testArray called up to MaxRuns times.
NextRuns ==
  \/ testArray
  \/ testArrayAgain
  \/ \E i \in Tests : WaitElapsed(i)
  \/ \E i \in Tests : RequestTimeout(i)
  \/ \E i \in Tests : ConnectionFailure(i)
  \/ \E i \in Tests : \E r \in RunResponses : ServerRespond(i, r)
  \/ \E t \in Instants : Tick(t)

SpecRuns == InitRuns /\ [][NextRuns]_vars

\* The command line, parsed up to MaxCalls times.
InitCmdLine == InitWith(<<>>)
NextCmdLine == \E a \in Argvs : processCmdLineArgs(a)
SpecCmdLine == InitCmdLine /\ [][NextCmdLine]_vars

(***************************************************************************)
(* The outcome of a test, and what its expectations ask of a response, in  *)
(* the terms of the specification.                                         *)
(***************************************************************************)
Passed(o) == o.t \in {"null", "undefined"}
Failed(o) == o.t = "string"
Errored(o) == o.t = "error"

IsHttp(i) == requestOpt[i] # NoRequest
Answered(i) == response[i].kind = "response"

StatusMatches(test, res) ==
  \/ test.status = DontCare
  \/ test.status = Undefined /\ res.statusCode = 200
  \/ test.status.t = "number" /\ test.status.n = res.statusCode

EffectiveJson(res) ==
  /\ "content-type" \in DOMAIN res.headers
  /\ res.headers["content-type"].s \in
       {JsonType, JsonCharsetHeader, JsonTwoParamsHeader}

EffectiveHtml(res) ==
  /\ "content-type" \in DOMAIN res.headers
  /\ res.headers["content-type"].s = HtmlType

ContentTypeMatches(test, res) ==
  \/ test.contentType = DontCare /\ "content-type" \in DOMAIN res.headers
  \/ test.contentType \in {Undefined, Str(JsonType)} /\ EffectiveJson(res)
  \/ test.contentType = Str(HtmlType) /\ EffectiveHtml(res)

BodyMatches(test, res) ==
  \/ test.returns = DontCare /\ res.body \in {HelloText, GoodbyeText}
  \/ test.returns = HelloObj /\ res.body = HelloText

(***************************************************************************)
(* C1: within one testArray run at most one test is in flight at a time,   *)
(* and test i+1 is not dispatched before the callback of test i was        *)
(* invoked.                                                                *)
(***************************************************************************)
C1_StrictlySequential ==
  /\ Cardinality(Pending) <= 1
  /\ \A i \in Tests : (i + 1 \in Tests /\ st[i + 1] # "idle") => st[i] = "done"

(***************************************************************************)
(* C2: a cookie set by the response to test i is among the cookies the     *)
(* request of test i+1 presents.                                           *)
(***************************************************************************)
C2_CookiesCarriedForward ==
  \A i \in Tests :
    (/\ i + 1 \in Tests
     /\ IsHttp(i + 1)
     /\ Answered(i)
     /\ "set-cookie" \in DOMAIN response[i].res.headers)
    => response[i].res.headers["set-cookie"].s \in presented[i + 1]

(***************************************************************************)
(* C3: a test with wait set issues no request and evaluates no check; its  *)
(* callback is invoked once, without an error, and not before the wait has *)
(* elapsed.  C3_WaitSet is the claim for every wait that is set,           *)
(* C3_WaitNonZero the claim for every wait other than 0.                   *)
(***************************************************************************)
PurePause(i) ==
  /\ ~IsHttp(i)
  /\ response[i] = NoResponse
  /\ checks[i] = {}
  /\ st[i] \in {"idle", "waiting", "done"}
  /\ st[i] = "done" =>
       /\ Passed(outcome[i])
       /\ cbCount[i] = 1
       /\ doneAt[i] >= startAt[i] + arr[i].wait.n

StatusFailure(o) == Failed(o) /\ Head(o.s) = "Wrong status code: "
ContentTypeFailure(o) == Failed(o) /\ Head(o.s) = "Wrong mime type: "
BodyFailure(o) == Failed(o) /\ Head(o.s) = "Wrong response body"

C4_FirstMismatchOnly ==
  \A i \in Tests :
    Answered(i) =>
      LET test == arr[i]
          res == response[i].res
      IN /\ ~StatusMatches(test, res) =>
              /\ st[i] = "done"
              /\ outcome[i] = Str(<<"Wrong status code: ", res.statusCode>>)
              /\ checks[i] = {"status"}
         /\ ContentTypeFailure(outcome[i]) =>
              /\ StatusMatches(test, res)
              /\ "body" \notin checks[i]
         /\ BodyFailure(outcome[i]) =>
              StatusMatches(test, res) /\ ContentTypeMatches(test, res)

C4_Witness ==
  \E i \in Tests :
    /\ Answered(i)
    /\ arr[i].status = Undefined /\ arr[i].returns = HelloObj
    /\ response[i].res.statusCode = 404
    /\ response[i].res.body = GoodbyeText
    /\ StatusFailure(outcome[i])

(***************************************************************************)
(* C5: a request of a test with timeout t is not left pending beyond t     *)
(* after its dispatch, and when it ends without a response the callback    *)
(* receives an error object, not a failure message.                        *)
(***************************************************************************)
C5_DeadlineIsTransportError ==
  \A i \in Tests :
    (IsHttp(i) /\ arr[i].timeout # Undefined) =>
      /\ st[i] = "inflight" => now <= startAt[i] + arr[i].timeout.n
      /\ (st[i] = "done" /\ ~Answered(i)) =>
           /\ Errored(outcome[i])
           /\ doneAt[i] <= startAt[i] + arr[i].timeout.n

C5_Witness ==
  \E i \in Tests :
    /\ arr[i].timeout = Num(50)
    /\ st[i] = "done"
    /\ response[i] = [kind |-> "error", err |-> Err("ETIMEDOUT")]
    /\ outcome[i] = Err("ETIMEDOUT")
    /\ doneAt[i] = 50

(***************************************************************************)
(* C6: when the request reports a transport error the callback receives    *)
(* that very error and no check is evaluated.                              *)
(***************************************************************************)
C6_TransportErrorPassedOn ==
  \A i \in Tests :
    response[i].kind = "error" =>
      /\ st[i] = "done"
      /\ outcome[i] = response[i].err
      /\ checks[i] = {}

C6_Witness ==
  \E i \in Tests :
    /\ response[i] = [kind |-> "error", err |-> Err("ECONNREFUSED")]
    /\ arr[i].status = Num(404)
    /\ outcome[i] = Err("ECONNREFUSED")

(***************************************************************************)
(* C7: testArray's callback reports success exactly when every test of the *)
(* sequence has passed.                                                    *)
(***************************************************************************)
C7_SuccessIffAllPassed ==
  /\ \A k \in DOMAIN finalCalls :
       ~Truthy(finalCalls[k]) <=> \A i \in Tests : Passed(outcome[i])
  /\ (phase = "running" /\ \A i \in Tests : Passed(outcome[i])) =>
       finalCalls # <<>>
  /\ (\E i \in Tests : Failed(outcome[i]) \/ Errored(outcome[i])) =>
       (finalCalls # <<>> /\ Truthy(finalCalls[1]))

C7_Witness ==
  /\ Len(arr) = 2
  /\ finalCalls = <<Undefined>>
  /\ \A i \in Tests : st[i] = "done"

(***************************************************************************)
(* C8: every test of the sequence is evaluated whatever became of the      *)
(* earlier ones, and testArray's callback carries the failure of the first *)
(* test of the sequence that did not pass, or success when all passed.     *)
(***************************************************************************)
NotPassed == {i \in Tests : st[i] = "done" /\ ~Passed(outcome[i])}
FirstNotPassed == CHOOSE i \in NotPassed : \A j \in NotPassed : i <= j

C8_RunsAllReportsFirst ==
  /\ (phase = "running" /\ ~ENABLED Next) => \A i \in Tests : st[i] = "done"
  /\ (finalCalls # <<>> /\ \A i \in Tests : st[i] = "done") =>
       IF NotPassed = {} THEN ~Truthy(finalCalls[1])
       ELSE finalCalls[1] = outcome[FirstNotPassed]

(***************************************************************************)
(* C9: a response with a matching status, an effective content type of     *)
(* application/json that matches, and a JSON body that matches returns,    *)
(* yields Passed, with and without args.                                   *)
(***************************************************************************)
C9_AllChecksPass ==
  \A i \in Tests :
    (/\ Answered(i)
     /\ StatusMatches(arr[i], response[i].res)
     /\ EffectiveJson(response[i].res)
     /\ ContentTypeMatches(arr[i], response[i].res)
     /\ BodyMatches(arr[i], response[i].res))
    => st[i] = "done" /\ Passed(outcome[i])

(***************************************************************************)
(* C10: the deadline of a request is the test's own timeout when it has    *)
(* one, else the value assigned to jsonApiTester.defaultTimeout, else 2000.*)
(***************************************************************************)
C10_ConfiguredDefaultTimeout ==
  \A i \in Tests :
    IsHttp(i) =>
      requestOpt[i].timeout =
        IF arr[i].timeout # Undefined THEN arr[i].timeout
        ELSE IF defaultTimeout # Undefined THEN defaultTimeout
        ELSE Num(DocumentedDefaultTimeout)

(***************************************************************************)
(* C11: a response without a content-type header still gets the test an    *)
(* outcome: its callback is invoked, with Passed or Failed as the empty    *)
(* type compares with the contentType expectation.                         *)
(***************************************************************************)
C11_NoHeaderStillAnOutcome ==
  \A i \in Tests :
    (Answered(i) /\ "content-type" \notin DOMAIN response[i].res.headers) =>
      /\ st[i] = "done"
      /\ cbCount[i] = 1
      /\ StatusMatches(arr[i], response[i].res) =>
           IF arr[i].contentType = DontCare THEN Passed(outcome[i])
           ELSE ContentTypeFailure(outcome[i])

(***************************************************************************)
(* C12: a response of effective type application/json whose body is not    *)
(* JSON never passes and never fails on the body; once the status and the  *)
(* content type are accepted its outcome is the parse error.               *)
(***************************************************************************)
C12_InvalidJsonIsError ==
  \A i \in Tests :
    (Answered(i) /\ EffectiveJson(response[i].res)
       /\ response[i].res.body = HtmlText) =>
      /\ st[i] = "done"
      /\ ~Passed(outcome[i])
      /\ ~BodyFailure(outcome[i])
      /\ (StatusMatches(arr[i], response[i].res)
            /\ ContentTypeMatches(arr[i], response[i].res))
           => outcome[i] = Err("SyntaxError")

C12_Witness ==
  \E i \in Tests :
    /\ Answered(i)
    /\ response[i].res.headers = Headers(Str(JsonCharsetHeader), Undefined)
    /\ response[i].res.body = HtmlText
    /\ arr[i].returns = DontCare
    /\ outcome[i] = Err("SyntaxError")

FirstSemicolon(h) ==
  IF \E k \in DOMAIN h : h[k] = ";"
  THEN CHOOSE k \in DOMAIN h : h[k] = ";" /\ \A j \in 1..(k - 1) : h[j] # ";"
  ELSE Len(h) + 1

Stripped(h) == SubSeq(h, 1, FirstSemicolon(h) - 1)

C14_ParametersStripped ==
  \A i \in Tests :
    (/\ Answered(i)
     /\ "content-type" \in DOMAIN response[i].res.headers
     /\ StatusMatches(arr[i], response[i].res))
    => LET h == response[i].res.headers["content-type"].s
       IN /\ st[i] = "done"
          /\ ContentTypeFailure(outcome[i]) =>
               outcome[i].s = <<"Wrong mime type: ">> \o Stripped(h)
          /\ (Stripped(h) = JsonType /\ arr[i].contentType = Str(JsonType)) =>
               ~ContentTypeFailure(outcome[i])
          /\ (Stripped(h) = JsonType /\ arr[i].contentType = Str(HtmlType)) =>
               ContentTypeFailure(outcome[i])

C14_Witness ==
  \E i \in Tests :
    /\ Answered(i)
    /\ response[i].res.headers = Headers(Str(JsonCharsetHeader), Undefined)
    /\ response[i].res.body = HelloText
    /\ arr[i].contentType = Str(JsonType)
    /\ arr[i].returns = HelloObj
    /\ outcome[i] = Null

(***************************************************************************)
(* C15: a test that sets status and returns to dontCare and nothing else.  *)
(* C15_DontCarePassesAnything is the claim for every response,             *)
(* C15_DontCarePassesJson the claim for every response of effective type   *)
(* application/json with a JSON body.                                      *)
(***************************************************************************)
OnlyDontCare(test) ==
  /\ test.status = DontCare /\ test.returns = DontCare
  /\ test.contentType = Undefined /\ test.timeout = Undefined
  /\ test.wait = Undefined /\ test.args = Undefined

StoredThisRun ==
  UNION {IF "set-cookie" \in DOMAIN response[j].res.headers
         THEN {response[j].res.headers["set-cookie"].s} ELSE {} :
           j \in {k \in Tests : Answered(k)}}

C16_OneJarPerRun ==
  /\ Len(jars) = Len(runJar)
  /\ \A m, n \in DOMAIN runJar : m # n => runJar[m] # runJar[n]
  /\ \A i \in Tests :
       IsHttp(i) => /\ requestOpt[i].jar = runJar[Len(runJar)]
                    /\ presented[i] \subseteq StoredThisRun

C16_Witness ==
  /\ Len(runJar) = 2
  /\ jars[runJar[1]] = {SidCookie}
  /\ \A i \in Tests : IsHttp(i) /\ st[i] = "done" /\ presented[i] = {}
  /\ Len(arr) = 2

(***************************************************************************)
(* C17: the request of a test with files is multipart form data of one     *)
(* file part per entry of files, under its field name, with the basename   *)
(* of its path as filename and the content type application/octet-stream,  *)
(* and one plain field per key of args.                                    *)
(***************************************************************************)
Basename(file) == <<file[Len(file)]>>

KeysOf(v) == IF v.t = "object" THEN DOMAIN v.o ELSE {}

ExpectedParts(test) ==
  {[name |-> f, value |-> test.files.o[f],
    filename |-> Basename(test.files.o[f].s),
    contentType |-> <<"application/octet-stream">>] : f \in KeysOf(test.files)}
  \cup {[name |-> f, value |-> test.args.o[f], filename |-> <<>>,
         contentType |-> <<>>] : f \in KeysOf(test.args)}

C17_FilesSentAsMultipart ==
  \A i \in Tests :
    (IsHttp(i) /\ arr[i].files # Undefined) =>
      form[i] = [t |-> "form", parts |-> ExpectedParts(arr[i])]

(***************************************************************************)
(* C18: the request of a test that uploads files does not carry args as a  *)
(* JSON body.                                                              *)
(***************************************************************************)
Uploads(test) == test.files # Undefined \/ test.form # Undefined

C18_NoJsonBodyWithUpload ==
  \A i \in Tests :
    (IsHttp(i) /\ Uploads(arr[i])) => requestOpt[i].json = Undefined

(***************************************************************************)
(* C19: an upload file that cannot be read gives its test an Error outcome *)
(* through its callback: singleTest does not throw, the tests after it are *)
(* run, and once no test is pending the final callback has been invoked.   *)
(***************************************************************************)
C19_ReadFailureIsOutcome ==
  \A i \in Tests :
    (phase = "running" /\ ReadThrows(arr[i])) =>
      /\ st[i] # "threw"
      /\ ~crashed
      /\ Pending = {} =>
           /\ st[i] = "done" /\ Errored(outcome[i])
           /\ \A j \in Tests : st[j] = "done"
           /\ Len(finalCalls) = 1

(***************************************************************************)
(* C20: the request target is the server name, with 'http://' put before   *)
(* it exactly when it starts with neither 'http://' nor 'https://',        *)
(* followed at once by the url of the test.                                *)
(***************************************************************************)
StartsWith(str, tok) == str # <<>> /\ str[1] = tok

C20_TargetIsBasePlusUrl ==
  \A i \in Tests :
    IsHttp(i) =>
      requestOpt[i].url =
        (IF StartsWith(serverName, "http://") \/ StartsWith(serverName, "https://")
         THEN serverName
         ELSE <<"http://">> \o serverName) \o arr[i].url

(***************************************************************************)
(* C22: singleTest invokes its callback exactly once, whatever the test    *)
(* and whatever the request produces: never twice, and once when the test  *)
(* is no longer pending.                                                   *)
(***************************************************************************)
C22_CallbackExactlyOnce ==
  \A i \in Tests :
    /\ cbCount[i] <= 1
    /\ (phase = "running" /\ i \notin Pending) => cbCount[i] = 1

(***************************************************************************)
(* C23: when testArray's callback has been invoked, no test of the         *)
(* sequence is pending: no request is in flight and no wait timer is armed.*)
(***************************************************************************)
C23_NothingPendingAtFinal == finalCalls # <<>> => Pending = {}

(***************************************************************************)
(* C24: testArray invokes its callback exactly once per run: never twice,  *)
(* and once when no test is pending any more.                              *)
(***************************************************************************)
C24_FinalCallbackOnce ==
  /\ Len(finalCalls) <= 1
  /\ (phase = "running" /\ Pending = {}) => Len(finalCalls) = 1

(***************************************************************************)
(* C27: testArray on an empty array issues no request, arms no timer and   *)
(* invokes its callback once, with no error.                               *)
(***************************************************************************)
C27_EmptySequence ==
  (phase = "running" /\ Len(arr) = 0) =>
    /\ finalCalls = <<Undefined>>
    /\ requestOpt = <<>> /\ timer = <<>> /\ Pending = {}
    /\ ~crashed

C27_Witness ==
  /\ phase = "running"
  /\ arr = <<>>
  /\ finalCalls = <<Undefined>>

(***************************************************************************)
(* C21: processCmdLineArgs throws 'expected a server name' when given no   *)
(* positional argument and 'expected the path of the folder/file           *)
(* containing the tests' when given one; given two it returns the first as *)
(* server, the second as path, and verbose 0 without a -v flag, non-zero   *)
(* with one.                                                               *)
(***************************************************************************)
Positionals(a) == SelectSeq(a, LAMBDA tok : tok \notin {"-v", "-vvv"})
HasVerboseFlag(a) == \E k \in DOMAIN a : a[k] \in {"-v", "-vvv"}

C21_CmdLineArgs ==
  settings # NoSettings =>
    LET pos == Positionals(argv)
    IN /\ Len(pos) = 0 => settings = ThrewError(<<"expected a server name">>)
       /\ Len(pos) = 1 =>
            settings =
              ThrewError(<<"expected the path of the folder/file containing the tests">>)
       /\ Len(pos) = 2 =>
            /\ settings.t = "program"
            /\ settings.server = Str(<<pos[1]>>)
            /\ settings.path = Str(<<pos[2]>>)
            /\ IF HasVerboseFlag(argv) THEN settings.verbose.n # 0
               ELSE settings.verbose = Num(0)

(***************************************************************************)
(* test, testDirectory and testFile as a state machine.                    *)
(***************************************************************************)
\* What testArray leaves as it is, and what it sets.
runInputs ==
  <<arr, serverName, defaultTimeout, now, doneAt, response, outcome, checks,
    cbCount, completed, callbackLive>>
runState ==
  <<phase, st, timer, requestOpt, form, presented, startAt, jars, cookieJar,
    runJar>>

\* An exception leaves the call: for the caller when the call was made by
\* the caller, for the event loop when it was made in a callback of fs.
Throw(uncaught) ==
  /\ pc' = [pc EXCEPT !.at = "threw"]
  /\ crashed' \in (IF uncaught THEN {TRUE} ELSE BOOLEAN)
  /\ UNCHANGED <<runInputs, runState, finalCalls>>

\* callback(err), called by test or testDirectory itself.
Callback(err) ==
  /\ pc' = [pc EXCEPT !.at = "done"]
  /\ finalCalls' = Append(finalCalls, err)
  /\ UNCHANGED <<runInputs, runState, crashed>>

\* exports.testFile(path, serverName, verbosity, callback): require, then
\* testArray on what the file exports, arr.
RunFile(q, uncaught) ==
  IF RequireThrows(q) THEN Throw(uncaught)
  ELSE /\ pc' = [pc EXCEPT !.at = "testFile"]
       /\ phase' = "running"
       /\ StartRun
       /\ UNCHANGED runInputs

\* testFile called by the user.
testFile(q) ==
  /\ pc = NotCalledYet /\ phase = "idle"
  /\ path' = q
  /\ LET called == [fn |-> "testFile", at |-> "idle"]
     IN IF RequireThrows(q)
        THEN /\ pc' = [called EXCEPT !.at = "threw"]
             /\ crashed' \in BOOLEAN
             /\ UNCHANGED <<runInputs, runState, finalCalls>>
        ELSE /\ pc' = [called EXCEPT !.at = "testFile"]
             /\ phase' = "running"
             /\ StartRun
             /\ UNCHANGED runInputs
  /\ UNCHANGED cmdVars

\* exports.testDirectory(path, ...): fs.readdir(path, function(err, files)
RunDirectory(q, fn, uncaught) ==
  IF ReaddirThrows(q)
  THEN /\ pc' = [fn |-> fn, at |-> "threw"]
       /\ crashed' \in (IF uncaught THEN {TRUE} ELSE BOOLEAN)
       /\ UNCHANGED <<runInputs, runState, finalCalls>>
  ELSE /\ pc' = [fn |-> fn, at |-> "readdir"]
       /\ UNCHANGED testVars

\* testDirectory called by the user.
testDirectory(q) ==
  /\ pc = NotCalledYet /\ phase = "idle"
  /\ path' = q
  /\ RunDirectory(q, "testDirectory", FALSE)
  /\ UNCHANGED cmdVars

\* The callback of fs.readdir: the error handed on, or the files ending in
\* '.js' handed to async.series.
ReaddirCallback ==
  /\ pc.at = "readdir" /\ ~crashed
  /\ IF path.kind # "directory" THEN Callback(Err("ENOTDIR"))
     ELSE IF SeriesThrows(JsFiles(path.entries)) THEN Throw(TRUE)
     ELSE RunFile(UndefinedFile(path), TRUE)
  /\ UNCHANGED <<cmdVars, path>>

\* exports.test(args, callback): fs.fstat(args.path, function(err, stats)
test(q) ==
  /\ pc = NotCalledYet /\ phase = "idle"
  /\ path' = q
  /\ IF FstatThrows(q)
     THEN /\ pc' = [fn |-> "test", at |-> "threw"]
          /\ crashed' \in BOOLEAN
          /\ UNCHANGED <<runInputs, runState, finalCalls>>
     ELSE /\ pc' = [fn |-> "test", at |-> "fstat"]
          /\ UNCHANGED testVars
  /\ UNCHANGED cmdVars

\* The callback of fs.fstat.  With nothing open under the descriptor stats
\* is undefined and stats.isFile() throws.
FstatCallback ==
  /\ pc.at = "fstat" /\ ~crashed
  /\ CASE path.kind = "missing" -> Throw(TRUE)
       [] path.kind = "file" -> RunFile(path, TRUE)
       [] path.kind = "directory" -> RunDirectory(path, "test", TRUE)
       [] OTHER -> Callback(Err("Error"))
  /\ UNCHANGED <<cmdVars, path>>

\* test, testDirectory and testFile on a path, the file of tests being arr.
InitPath == \E a \in UNION {[1..n -> RunTestObjs] : n \in 0..1} : InitWith(a)

NextPath ==
  \/ \E q \in PathInputs : test(q)
  \/ \E q \in PathInputs : testDirectory(q)
  \/ \E q \in PathInputs : testFile(q)
  \/ FstatCallback
  \/ ReaddirCallback
  \/ \E i \in Tests : WaitElapsed(i)
  \/ \E i \in Tests : RequestTimeout(i)
  \/ \E i \in Tests : ConnectionFailure(i)
  \/ \E i \in Tests : \E r \in RunResponses : ServerRespond(i, r)
  \/ \E t \in Instants : Tick(t)

SpecPath == InitPath /\ [][NextPath]_vars

(***************************************************************************)
(* C25: testDirectory hands its callback the error when the directory      *)
(* cannot be read, and runs no test; on a directory it runs the files      *)
(* whose name ends in '.js', and its callback gets success when there is   *)
(* nothing to fail.                                                        *)
(***************************************************************************)
HasJsEntry(q) ==
  \E k \in DOMAIN q.entries : q.entries[k][Len(q.entries[k])] = ".js"

C25_DirectoryRun ==
  (pc.fn = "testDirectory" /\ path.arg.t = "string" /\ pc.at # "readdir") =>
    IF path.kind # "directory"
    THEN /\ pc.at = "done"
         /\ Len(finalCalls) = 1 /\ Errored(finalCalls[1])
         /\ phase = "idle"
    ELSE /\ pc.at # "threw"
         /\ ~crashed
         /\ ~HasJsEntry(path) =>
              /\ pc.at = "done"
              /\ Len(finalCalls) = 1 /\ Passed(finalCalls[1])
              /\ phase = "idle"

(***************************************************************************)
(* C26: test(args, callback) runs testFile when args.path is a file,       *)
(* testDirectory when it is a directory, and otherwise hands an Error to   *)
(* the callback; it does not throw.                                        *)
(***************************************************************************)
C26_PathDispatch ==
  (pc.fn = "test" /\ path.arg.t = "string") =>
    /\ pc.at # "threw"
    /\ ~crashed
    /\ pc.at # "fstat" =>
         CASE path.kind = "file" -> pc.at = "testFile"
           [] path.kind = "directory" -> pc.at \in {"readdir", "testFile", "done"}
           [] OTHER -> /\ pc.at = "done"
                       /\ Len(finalCalls) = 1 /\ Errored(finalCalls[1])

====
